---- MODULE Spec2Model ----
(* Rules core of the shuffleboard drafts.                                   *)
(*   - the single-file draft (src/unnamed/part_000): key handlers, the      *)
(*     animation tick, shootDisc, the deferred calculateScores and the      *)
(*     deferred round reset;                                                *)
(*   - Player (src/js/player.js) with Board.calculateScore (src/js/board.js)*)
(*   - the scoring-zone resolver getPointsForPosition as a pure function.   *)
(*   - Board.calculateScore (src/js/board.js) and calculateScore of        *)
(*     src/js/utils.js as pure functions;                                   *)
(*   - ShuffleboardGame (src/js/game.js): its state manager on its own, and *)
(*     its match, pause and turn logic.                                     *)
(* Positions are in tenths of a board unit (z = 19.9 is 199).  The physics  *)
(* engine is an external collaborator: the positions and speeds the rules   *)
(* read from it are inputs drawn from small sets.                           *)
EXTENDS Integers, Sequences, FiniteSets, TLC

(***************************************************************************)
(* Bounds                                                                  *)
(***************************************************************************)
\* shots accepted in one round before the model stops pressing the key
MaxShots == 9
\* calculateScores runs explored
MaxCalcRuns == 3
\* power meter resolution: PowerMax stands for power = 1
PowerMax == 1
\* pending deferred throws of Player.makeAIMove
MaxAITimers == 1
\* rounds of a game.js match that are explored
MaxRound == 3
\* shot discs of a game.js match that are awaited at the same time
MaxWaiting == 1

\* resting positions of the eight discs (tenths) that the physics engine
\* reports at scoring time; discs 1,3,5,7 are player 1's, -15 is the start
\* area: everything in the 10 zone, nothing moved, 40 against 30, and
\* player 1 on 10, 7, 8, -10
RestLayouts ==
    { [i \in 1..8 |-> 190],
      [i \in 1..8 |-> -15],
      [i \in 1..8 |-> IF i = 8 THEN -15 ELSE 190],
      [i \in 1..8 |-> IF i = 1 THEN 190 ELSE IF i = 3 THEN 120
                       ELSE IF i = 5 THEN 160 ELSE IF i = 7 THEN 50 ELSE -15] }
\* discs that the physics engine may carry out of the playable volume:
\* player 2's first disc, the one player 2 shoots
LeavingDiscs == {2}
\* positions fed to the zone resolvers (tenths): -5.0 .. 25.0
ZRange == -50..250
\* positions fed to the two calculateScore functions (tenths): z from 5.0
\* behind the board to 5.0 beyond it, x on the board, at its edges and far
\* to either side
BoardZRange == -200..200
BoardXRange == {-160, -10, 0, 10, 160}
\* names handed to setState: the five states and two that are none
StateNames == {"loading", "menu", "playing", "paused", "gameOver", "settings", "Playing"}
\* what is handed to onStateChange: two functions and something that is not
\* a function
Callbacks == {"cbA", "cbB"}
CallbackInputs == Callbacks \cup {"notAFunction"}
\* what the board reports for a shot disc when checkScoring looks at it: a
\* zone worth 10, or no zone and out of bounds
ScoreOutcomes == { << 10 >>, << >> }
\* discs that may be found out of bounds: player 1's first disc
OutDiscs == { << 1, 1 >> }
\* positions a Player disc is found at (tenths)
PlayerPositions == {-60, 130}
\* aim directions (sin, cos of player.angle, in hundredths): straight ahead
\* and the two ends -MAX_ANGLE, MAX_ANGLE
Directions == { [x |-> 0, z |-> 100], [x |-> 71, z |-> 71], [x |-> -71, z |-> 71] }
\* speeds the physics engine reports for the active disc (hundredths): at
\* the rest threshold, just above it, and NaN (the empty tuple)
Speeds == { << 10 >>, << 11 >>, << >> }

(***************************************************************************)
(* Program constants                                                       *)
(***************************************************************************)
\* createDiscs creates 4 discs for each of the two players
DISCS_PER_PLAYER == 4
\* shootDisc starts the scoring once discsShot >= 8
ROUND_SHOTS == 8
WIN_SCORE == 75
winningScore == 75
maxDiscs == 4
BoardLength == 300
BoardWidth == 20
SHOT_POWER == 15
\* (Math.random() - 0.5) * 0.5, in hundredths
RANDOM_SCALE == 50
\* velocity.length() > 0.1, in hundredths
REST_EPSILON == 10

SCORING_ZONES ==
    << [min |-> 180, max |-> 200, points |-> 10],
       [min |-> 150, max |-> 180, points |-> 8],
       [min |-> 100, max |-> 150, points |-> 7],
       [min |-> 0,   max |-> 100, points |-> -10] >>

VARIABLES
    \* which of the independent drafts this run is of
    draft,
    \* ---- part_000 ----
    gameState, power, powerIncreasing, currentPlayer, discsShot,
    player1Score, player2Score, currentRound, activeDisc, discs,
    timers, winner,
    \* history of part_000: shots of the current round, points of the discs
    \* marked scored so far, calculateScores runs so far, and the key event
    \* of the last step if its handler found gameState unfit for it
    shotLog, ledger, calcRuns, ignoredInput,
    \* ---- getPointsForPosition as a function ----
    zPos, zPoints,
    \* ---- Player (player.js) ----
    isAI, pScore, discsThrown, pDiscs, pTimers, pRet, pRound,
    \* history of Player: pending makeAIMove timers that were set before
    \* the last reset
    pStale,
    \* ---- Board.calculateScore and calculateScore of utils.js as functions ----
    bX, bZ, bBoard, bUtils,
    \* ---- the state manager of ShuffleboardGame (game.js) on its own ----
    sValue, sCallbacks,
    \* history of the state manager: callbacks whose unsubscribe function
    \* exists, callbacks unsubscribed and not registered since, and, if the
    \* last step was a setState call, its argument, the value it found and
    \* the callbacks it invoked
    sHandles, sRemoved, sLast, sNotified,
    \* ---- ShuffleboardGame (game.js): match, pause and turn logic ----
    \* state.value, this.isPaused, this.gameState, this.scores, this.round,
    \* this.currentPlayerIndex, the players' discsThrown and discs
    gState, gIsPaused, gGameState, gScores, gRound, gIndex, gThrown, gDiscs,
    \* shot discs whose coming to rest is still awaited (waitForDiscToStop)
    gWaiting,
    \* history: the argument of the last endGame call of this match
    gWinner

p0vars == << gameState, power, powerIncreasing, currentPlayer, discsShot,
             player1Score, player2Score, currentRound, activeDisc, discs,
             timers, winner, shotLog, ledger, calcRuns, ignoredInput >>
zvars == << zPos, zPoints >>
plvars == << isAI, pScore, discsThrown, pDiscs, pTimers, pRet, pRound, pStale >>
brdvars == << bX, bZ, bBoard, bUtils >>
smvars == << sValue, sCallbacks, sHandles, sRemoved, sLast, sNotified >>
gvars == << gState, gIsPaused, gGameState, gScores, gRound, gIndex, gThrown,
           gDiscs, gWaiting, gWinner >>
jsvars == << brdvars, smvars, gvars >>
vars == << draft, p0vars, zvars, plvars, jsvars >>

DiscIds == 1..(2 * DISCS_PER_PLAYER)
\* the discs of a Player (player.js)
PDiscIds == 1..maxDiscs

RECURSIVE SumOver(_, _)
SumOver(S, f) ==
    IF S = {} THEN 0
    ELSE LET x == CHOOSE y \in S : TRUE IN f[x] + SumOver(S \ {x}, f)

MinOf(S) == CHOOSE x \in S : \A y \in S : x <= y

(***************************************************************************)
(* getPointsForPosition: first zone of the table that matches              *)
(***************************************************************************)
InZone(z, zone) == z >= zone.min /\ z <= zone.max

RECURSIVE ScanZones(_, _)
ScanZones(z, i) ==
    IF i > Len(SCORING_ZONES) THEN 0
    ELSE IF InZone(z, SCORING_ZONES[i]) THEN SCORING_ZONES[i].points
    ELSE ScanZones(z, i + 1)

getPointsForPosition(z) == ScanZones(z, 1)

(***************************************************************************)
(* JavaScript numbers: << n >> is the number n, << >> is NaN               *)
(***************************************************************************)
NaN == << >>

Num(n) == << n >>

Times(a, b) == IF a = NaN \/ b = NaN THEN NaN ELSE << a[1] * b[1] >>

Plus(a, b) == IF a = NaN \/ b = NaN THEN NaN ELSE << a[1] + b[1] >>

\* a > n: false when a is NaN
GreaterThan(a, n) == a # NaN /\ a[1] > n

(***************************************************************************)
(* part_000: discs                                                         *)
(***************************************************************************)
\* createDiscs pushes createDisc(1,i), createDisc(2,i) for i = 0..3
DiscPlayer(i) == IF i % 2 = 1 THEN 1 ELSE 2

createDiscs ==
    [i \in DiscIds |->
        [player |-> DiscPlayer(i), scored |-> FALSE, points |-> 0, body |-> TRUE]]

getActivePlayerDiscs ==
    {i \in DiscIds : discs[i].player = currentPlayer /\ ~discs[i].scored}

OtherPlayer(p) == IF p = 1 THEN 2 ELSE 1

ShotsBy(p) == Cardinality({k \in 1..Len(shotLog) : shotLog[k].player = p})

Removed == {i \in DiscIds : ~discs[i].body}

P0Init ==
    /\ gameState = "aiming"
    /\ power = 0
    /\ powerIncreasing = TRUE
    /\ currentPlayer = 1
    /\ discsShot = 0
    /\ player1Score = 0
    /\ player2Score = 0
    /\ currentRound = 1
    /\ activeDisc = 0
    /\ discs = createDiscs
    /\ timers = << >>
    /\ winner = 0
    /\ shotLog = << >>
    /\ ledger = << 0, 0 >>
    /\ calcRuns = 0
    /\ ignoredInput = "none"

ZInit == zPos = 0 /\ zPoints = << >>

PlInit ==
    /\ isAI = FALSE
    /\ pScore = 0
    /\ discsThrown = 0
    /\ pDiscs = [i \in 1..maxDiscs |-> [z |-> 0, hasBeenScored |-> FALSE, force |-> FALSE]]
    /\ pTimers = 0
    /\ pRet = "none"
    /\ pRound = << >>
    /\ pStale = 0

(***************************************************************************)
(* part_000: input handlers                                                *)
(***************************************************************************)
\* mutant: a press is also taken while a disc is travelling
onKeyDown_Mutant ==
    /\ IF gameState \in {"aiming", "shooting"}
       THEN /\ gameState' = "charging"
            /\ power' = 0
            /\ powerIncreasing' = TRUE
            /\ ignoredInput' = "none"
       ELSE /\ UNCHANGED << gameState, power, powerIncreasing >>
            /\ ignoredInput' = "keydown"
    /\ UNCHANGED << currentPlayer, discsShot, player1Score, player2Score,
                    currentRound, activeDisc, discs, timers, winner,
                    shotLog, ledger, calcRuns >>

onKeyDown ==
    /\ IF gameState = "aiming"
       THEN /\ gameState' = "charging"
            /\ power' = 0
            /\ powerIncreasing' = TRUE
            /\ ignoredInput' = "none"
       ELSE /\ UNCHANGED << gameState, power, powerIncreasing >>
            /\ ignoredInput' = "keydown"
    /\ UNCHANGED << currentPlayer, discsShot, player1Score, player2Score,
                    currentRound, activeDisc, discs, timers, winner,
                    shotLog, ledger, calcRuns >>

\* The file has no import and uses the THREE and CANNON globals: it is a
\* classic script, so `this` in shootDisc() is the global object.  The
\* top-level `let power` is no property of it: this.power is undefined,
\* and undefined * SHOT_POWER is NaN.
thisPower == NaN

\* Math.random() - 0.5 scaled by 0.5: the two ends of the range and 0
Perturbations == { -(RANDOM_SCALE \div 2), 0, RANDOM_SCALE \div 2 - 1 }

\* velocity.set(direction.x * power, 0, direction.z * power), then the
\* perturbation is added to x and z; hundredths
ShotVelocity(dir, rx, rz) ==
    LET pw == Times(thisPower, Num(SHOT_POWER))
    IN [x |-> Plus(Times(Num(dir.x), pw), Num(rx)),
        z |-> Plus(Times(Num(dir.z), pw), Num(rz))]

\* the velocities a shot can give over the aim directions and perturbations
ShotVelocities ==
    {ShotVelocity(dir, rx, rz) :
        dir \in Directions, rx \in Perturbations, rz \in Perturbations}

\* shootDisc, entered from onKeyUp after gameState = 'aiming'
shootDisc ==
    LET activeDiscs == getActivePlayerDiscs IN
    IF activeDiscs = {}
    THEN /\ gameState' = "aiming"
         /\ UNCHANGED << activeDisc, discsShot, timers, currentPlayer, shotLog >>
    ELSE LET d == MinOf(activeDiscs) IN
         IF ~discs[d].body
         THEN \* activeDisc.body.velocity on a removed body: TypeError
              /\ gameState' = "aiming"
              /\ activeDisc' = d
              /\ UNCHANGED << discsShot, timers, currentPlayer, shotLog >>
         ELSE /\ activeDisc' = d
              /\ gameState' = "shooting"
              /\ discsShot' = discsShot + 1
              /\ \E v \in ShotVelocities :
                    shotLog' = Append(shotLog,
                                 [player |-> currentPlayer, disc |-> d, velocity |-> v])
              /\ IF discsShot + 1 >= ROUND_SHOTS
                 THEN /\ timers' = Append(timers, "calc")
                      /\ UNCHANGED currentPlayer
                 ELSE /\ UNCHANGED timers
                      /\ currentPlayer' = IF (discsShot + 1) % 2 = 0
                                          THEN OtherPlayer(currentPlayer)
                                          ELSE currentPlayer

onKeyUp ==
    /\ gameState = "charging" => discsShot < MaxShots
    /\ IF gameState = "charging"
       THEN shootDisc /\ ignoredInput' = "none"
       ELSE /\ UNCHANGED << gameState, activeDisc, discsShot, timers,
                            currentPlayer, shotLog >>
            /\ ignoredInput' = "keyup"
    /\ UNCHANGED << power, powerIncreasing, player1Score, player2Score,
                    currentRound, discs, winner, ledger, calcRuns >>

(***************************************************************************)
(* part_000: animation tick                                                *)
(***************************************************************************)
\* discs whose body the tick finds outside the volume and removes
RemovableSets == SUBSET {i \in LeavingDiscs : discs[i].body}

RemoveBodies(R) == [i \in DiscIds |-> IF i \in R THEN [discs[i] EXCEPT !.body = FALSE] ELSE discs[i]]

\* mutant: the angular speed is not consulted
IsMoving_Mutant(lin, ang) == GreaterThan(lin, REST_EPSILON)

\* velocity.length() > 0.1 || angularVelocity.length() > 0.1
IsMoving(lin, ang) == GreaterThan(lin, REST_EPSILON) \/ GreaterThan(ang, REST_EPSILON)

\* the values `isMoving` takes over the speeds the physics engine can report
\* for the active disc
MovingOutcomes == {IsMoving(lin, ang) : lin \in Speeds, ang \in Speeds}

RestCheck(ds, isMoving) ==
    IF activeDisc > 0 /\ ds[activeDisc].body /\ ~isMoving
    THEN gameState' = "aiming" /\ activeDisc' = 0
    ELSE UNCHANGED << gameState, activeDisc >>

animate ==
    \E R \in RemovableSets :
        /\ discs' = RemoveBodies(R)
        /\ CASE gameState = "charging" ->
                  /\ IF powerIncreasing
                     THEN IF power + 1 >= PowerMax
                          THEN power' = PowerMax /\ powerIncreasing' = FALSE
                          ELSE power' = power + 1 /\ UNCHANGED powerIncreasing
                     ELSE IF power - 1 <= 0
                          THEN power' = 0 /\ powerIncreasing' = TRUE
                          ELSE power' = power - 1 /\ UNCHANGED powerIncreasing
                  /\ UNCHANGED << gameState, activeDisc >>
             [] gameState = "shooting" ->
                  /\ \E isMoving \in MovingOutcomes : RestCheck(discs', isMoving)
                  /\ UNCHANGED << power, powerIncreasing >>
             [] OTHER ->
                  UNCHANGED << gameState, activeDisc, power, powerIncreasing >>
        /\ ignoredInput' = "none"
        /\ UNCHANGED << currentPlayer, discsShot, player1Score, player2Score,
                        currentRound, timers, winner, shotLog, ledger, calcRuns >>

(***************************************************************************)
(* part_000: calculateScores (deferred 2000 ms after the 8th shot)         *)
(***************************************************************************)
\* forEach order: player 1's unscored discs, then player 2's
ScoreOrder(i) == (discs[i].player - 1) * 2 * DISCS_PER_PLAYER + i

\* mutant: the scored flag is not consulted
Unscored_Mutant == DiscIds

Unscored == {i \in DiscIds : ~discs[i].scored}

\* disc.body.position on a removed body throws: the loops stop there
Blocking == {i \in Unscored : ~discs[i].body}

Processed ==
    IF Blocking = {} THEN Unscored
    ELSE LET stop == MinOf({ScoreOrder(i) : i \in Blocking})
         IN {i \in Unscored : ScoreOrder(i) < stop}

ScoreDiscs(zf) ==
    [i \in DiscIds |->
        IF i \in Processed
        THEN [discs[i] EXCEPT !.points = getPointsForPosition(zf[i]), !.scored = TRUE]
        ELSE discs[i]]

RoundScore(ds, p) ==
    SumOver({i \in Processed : ds[i].player = p}, [i \in DiscIds |-> ds[i].points])

AddScore(total, roundScore) == total + roundScore

IsWin(s1, s2) == s1 >= WIN_SCORE \/ s2 >= WIN_SCORE

\* mutant: the tie is not recognised
IsTie_Mutant(s1, s2) == FALSE

IsTie(s1, s2) == s1 = s2

\* mutant: the comparison is inverted
Winner_Mutant(s1, s2) == IF s1 < s2 THEN 1 ELSE 2

Winner(s1, s2) == IF s1 > s2 THEN 1 ELSE 2

calculateScores ==
    /\ timers # << >> /\ Head(timers) = "calc"
    /\ calcRuns < MaxCalcRuns
    /\ calcRuns' = calcRuns + 1
    /\ ignoredInput' = "none"
    /\ \E zf \in RestLayouts :
        LET ds == ScoreDiscs(zf)
            r1 == RoundScore(ds, 1)
            r2 == RoundScore(ds, 2)
            s1 == AddScore(player1Score, r1)
            s2 == AddScore(player2Score, r2)
        IN
        /\ discs' = ds
        /\ ledger' = << ledger[1] + r1, ledger[2] + r2 >>
        /\ IF Blocking # {}
           THEN \* TypeError inside a forEach: nothing after the loops runs
                /\ timers' = Tail(timers)
                /\ UNCHANGED << player1Score, player2Score, currentRound,
                                gameState, winner >>
           ELSE /\ player1Score' = s1
                /\ player2Score' = s2
                /\ IF IsWin(s1, s2)
                   THEN IF IsTie(s1, s2)
                        THEN \* currentRound++ in the tie branch and again after it
                             /\ currentRound' = currentRound + 2
                             /\ timers' = Append(Tail(timers), "reset")
                             /\ UNCHANGED << gameState, winner >>
                        ELSE /\ winner' = Winner(s1, s2)
                             /\ gameState' = "gameOver"
                             /\ timers' = Tail(timers)
                             /\ UNCHANGED currentRound
                   ELSE /\ currentRound' = currentRound + 1
                        /\ timers' = Append(Tail(timers), "reset")
                        /\ UNCHANGED << gameState, winner >>
    /\ UNCHANGED << power, powerIncreasing, currentPlayer, discsShot,
                    activeDisc, shotLog >>

(***************************************************************************)
(* part_000: round reset (deferred 3000 ms after calculateScores)          *)
(***************************************************************************)
\* createDiscs hands every disc.body to world.removeBody; for a body that
\* the tick already set to null the physics library either ignores the
\* call or throws on it, and then nothing of the callback takes effect.
roundReset ==
    /\ timers # << >> /\ Head(timers) = "reset"
    /\ timers' = Tail(timers)
    /\ ignoredInput' = "none"
    /\ \E removeBodyThrows \in {b \in BOOLEAN : b => Removed # {}} :
        IF removeBodyThrows
        THEN UNCHANGED << discs, gameState, currentPlayer, discsShot,
                          shotLog, activeDisc >>
        ELSE /\ discs' = createDiscs
             /\ gameState' = "aiming"
             /\ currentPlayer' = 1
             /\ discsShot' = 0
             /\ shotLog' = << >>
             \* a disc object of the replaced array is no disc of the new one
             /\ activeDisc' = IF activeDisc = 0 THEN 0 ELSE -1
    /\ UNCHANGED << power, powerIncreasing, player1Score, player2Score,
                    currentRound, winner, ledger, calcRuns >>

P0Next == onKeyDown \/ onKeyUp \/ animate \/ calculateScores \/ roundReset

(***************************************************************************)
(* getPointsForPosition applied to one input                               *)
(***************************************************************************)
resolvePosition ==
    /\ zPoints = << >>
    /\ zPoints' = << getPointsForPosition(zPos) >>
    /\ UNCHANGED zPos

ZNext == resolvePosition

(***************************************************************************)
(* Board.calculateScore (board.js), length 30                              *)
(***************************************************************************)
\* normalizedZ = (z + length/2) / length  <  pct/100
NormalizedBelow(z, pct) == (2 * z + BoardLength) * 100 < pct * 2 * BoardLength

BoardCalculateScore(z) ==
    IF NormalizedBelow(z, 10) THEN -10
    ELSE IF NormalizedBelow(z, 35) THEN 7
    ELSE IF NormalizedBelow(z, 65) THEN 8
    ELSE IF NormalizedBelow(z, 90) THEN 10
    ELSE 0

\* Board.isInBounds
isInBounds(x, z) ==
    /\ 2 * x >= -BoardWidth /\ 2 * x <= BoardWidth
    /\ 2 * z >= -BoardLength /\ 2 * z <= BoardLength

\* calculateScore(x, z, boardLength) of utils.js:
\* normalizedPos = (x + boardLength/2) / boardLength  <  pct/100
UtilsNormalizedBelow(x, boardLength, pct) ==
    (2 * x + boardLength) * 100 < pct * 2 * boardLength

UtilsCalculateScore(x, z, boardLength) ==
    IF UtilsNormalizedBelow(x, boardLength, 10) THEN -10
    ELSE IF UtilsNormalizedBelow(x, boardLength, 30) THEN 7
    ELSE IF UtilsNormalizedBelow(x, boardLength, 60) THEN 8
    ELSE IF UtilsNormalizedBelow(x, boardLength, 90) THEN 10
    ELSE 0

BInit == bX = 0 /\ bZ = 0 /\ bBoard = << >> /\ bUtils = << >>

\* both functions applied to one position
scorePosition ==
    /\ bBoard = << >>
    /\ bBoard' = << BoardCalculateScore(bZ) >>
    /\ bUtils' = << UtilsCalculateScore(bX, bZ, BoardLength) >>
    /\ UNCHANGED << bX, bZ >>

BNext == scorePosition

(***************************************************************************)
(* State manager of ShuffleboardGame (game.js): setState, onStateChange    *)
(***************************************************************************)
validStates == {"loading", "menu", "playing", "paused", "gameOver"}

SInit ==
    /\ sValue = "loading" /\ sCallbacks = {}
    /\ sHandles = {} /\ sRemoved = {} /\ sLast = << >> /\ sNotified = {}

\* mutant: the name is not checked
setState_Mutant ==
    \E newState \in StateNames :
        /\ sLast' = << [arg |-> newState, old |-> sValue] >>
        /\ sValue' = newState
        /\ sNotified' = sCallbacks
        /\ UNCHANGED << sCallbacks, sHandles, sRemoved >>

\* setState(newState): an unknown name is warned about and dropped; a known
\* one is stored and every registered callback is called with (new, old)
setState ==
    \E newState \in StateNames :
        /\ sLast' = << [arg |-> newState, old |-> sValue] >>
        /\ IF newState \notin validStates
           THEN sValue' = sValue /\ sNotified' = {}
           ELSE sValue' = newState /\ sNotified' = sCallbacks
        /\ UNCHANGED << sCallbacks, sHandles, sRemoved >>

\* onStateChange(callback): a function is added to the Set and a function
\* deleting it is returned; anything else is not added
onStateChange ==
    \E callback \in CallbackInputs :
        /\ IF callback \in Callbacks
           THEN /\ sCallbacks' = sCallbacks \cup {callback}
                /\ sHandles' = sHandles \cup {callback}
                /\ sRemoved' = sRemoved \ {callback}
           ELSE UNCHANGED << sCallbacks, sHandles, sRemoved >>
        /\ sLast' = << >> /\ sNotified' = {}
        /\ UNCHANGED sValue

\* a call of a function that onStateChange returned
unsubscribe ==
    \E callback \in sHandles :
        /\ sCallbacks' = sCallbacks \ {callback}
        /\ sRemoved' = sRemoved \cup {callback}
        /\ sLast' = << >> /\ sNotified' = {}
        /\ UNCHANGED << sValue, sHandles >>

SNext == setState \/ onStateChange \/ unsubscribe

(***************************************************************************)
(* ShuffleboardGame (game.js)                                              *)
(***************************************************************************)
PlayerIds == 1..2

FreshDiscs == [i \in PDiscIds |-> [hasBeenShot |-> FALSE, hasBeenScored |-> FALSE]]

\* the constructor, and setupPlayers of init()
GInit ==
    /\ gState = "loading" /\ gIsPaused = FALSE /\ gGameState = "none"
    /\ gScores = << 0, 0 >> /\ gRound = 1 /\ gIndex = 0
    /\ gThrown = << 0, 0 >> /\ gDiscs = [p \in PlayerIds |-> FreshDiscs]
    /\ gWaiting = 0 /\ gWinner = << >>

\* the turn logic works on these fields
Turn ==
    [index |-> gIndex, discs |-> gDiscs, thrown |-> gThrown, round |-> gRound,
     gameState |-> gGameState]

SetTurn(t) ==
    /\ t.round <= MaxRound
    /\ gIndex' = t.index /\ gDiscs' = t.discs /\ gThrown' = t.thrown
    /\ gRound' = t.round /\ gGameState' = t.gameState

getCurrentPlayer(t) == t.index + 1

getRemainingDiscs(t, p) == Cardinality({i \in PDiscIds : ~t.discs[p][i].hasBeenShot})

resetDiscs(t, p) == [t EXCEPT !.discs[p] = FreshDiscs, !.thrown[p] = 0]

startTurn(t) ==
    LET p == getCurrentPlayer(t)
        u == [t EXCEPT !.gameState = "aiming"]
    IN  IF \A i \in PDiscIds : u.discs[p][i].hasBeenShot THEN resetDiscs(u, p) ELSE u

endRound(t) ==
    startTurn([resetDiscs(resetDiscs(t, 1), 2) EXCEPT !.round = @ + 1, !.index = 0])

endTurn(t) ==
    IF t.gameState = "gameOver" THEN t
    ELSE LET u == [t EXCEPT !.index = (@ + 1) % 2]
         IN  IF getRemainingDiscs(u, getCurrentPlayer(u)) = 0
             THEN endRound(u)
             ELSE startTurn(u)

\* a shot of the current player, accepted while the match is played, the
\* turn is in 'aiming' and the player has a disc left: the next disc is
\* shot and its coming to rest is awaited
shoot ==
    /\ gWaiting < MaxWaiting
    /\ gState = "playing" /\ gGameState = "aiming"
    /\ gThrown[gIndex + 1] < maxDiscs
    /\ gDiscs' = [gDiscs EXCEPT ![gIndex + 1][gThrown[gIndex + 1] + 1].hasBeenShot = TRUE]
    /\ gThrown' = [gThrown EXCEPT ![gIndex + 1] = @ + 1]
    /\ gGameState' = "shooting"
    /\ gWaiting' = gWaiting + 1
    /\ UNCHANGED << gState, gIsPaused, gScores, gRound, gIndex, gWinner >>

checkWinCondition == << >>

Pending == {d \in PlayerIds \X PDiscIds :
               gDiscs[d[1]][d[2]].hasBeenShot /\ ~gDiscs[d[1]][d[2]].hasBeenScored}

endGameState == "gameOver"

\* the awaited disc has come to rest: checkScoring()
checkScoring ==
    /\ gWaiting > 0
    /\ gWaiting' = gWaiting - 1
    /\ IF gGameState = "gameOver"
       THEN UNCHANGED << gState, gIsPaused, gGameState, gScores, gRound, gIndex,
                         gThrown, gDiscs, gWinner >>
       ELSE \E score \in {f \in [Pending -> ScoreOutcomes] :
                            \A d \in Pending : f[d] = << >> => d \in OutDiscs} :
           LET scored == [p \in PlayerIds |-> [i \in PDiscIds |->
                            IF << p, i >> \in Pending
                            THEN [gDiscs[p][i] EXCEPT !.hasBeenScored = TRUE]
                            ELSE gDiscs[p][i]]]
               total(p) == gScores[p] +
                   SumOver({d \in Pending : d[1] = p /\ score[d] # << >>},
                           [d \in Pending |-> IF score[d] = << >> THEN 0 ELSE score[d][1]])
               t == [Turn EXCEPT !.discs = scored]
           IN  /\ gScores' = << total(1), total(2) >>
               /\ IF checkWinCondition # << >>
                  THEN /\ gState' = endGameState /\ gWinner' = checkWinCondition
                       /\ SetTurn(t)
                  ELSE /\ IF \A p \in PlayerIds, i \in PDiscIds : scored[p][i].hasBeenShot
                          THEN SetTurn(endRound(t))
                          ELSE SetTurn(endTurn(t))
                       /\ UNCHANGED << gState, gWinner >>
               /\ UNCHANGED gIsPaused

hasDiscsLeft(p) == gThrown[p] < maxDiscs

\* the winner checkGameOver hands to endGame (1, 2, or 0 for a tie), or
\* nothing if the match goes on
GameOverWinner ==
    LET player1Wins == gScores[1] >= winningScore
        player2Wins == gScores[2] >= winningScore
    IN  IF player1Wins \/ player2Wins
        THEN << IF player1Wins THEN 1 ELSE 2 >>
        ELSE IF \A p \in PlayerIds : ~hasDiscsLeft(p)
             THEN << IF gScores[1] > gScores[2] THEN 1
                     ELSE IF gScores[2] > gScores[1] THEN 2 ELSE 0 >>
             ELSE << >>

checkGameOver ==
    /\ IF GameOverWinner # << >>
       THEN gState' = endGameState /\ gWinner' = GameOverWinner
       ELSE UNCHANGED << gState, gWinner >>
    /\ UNCHANGED << gIsPaused, gGameState, gScores, gRound, gIndex, gThrown, gDiscs, gWaiting >>

\* showMainMenu: setState('menu'); the test for 'playing' that follows
\* reads the state that was just set
showMainMenu ==
    /\ gState' = "menu"
    /\ UNCHANGED gIsPaused
    /\ UNCHANGED << gGameState, gScores, gRound, gIndex, gThrown, gDiscs, gWaiting, gWinner >>

\* Player.reset for each player: discsThrown = 0, every disc Disc.reset
PlayersReset ==
    [p \in PlayerIds |-> [i \in PDiscIds |-> [gDiscs[p][i] EXCEPT !.hasBeenScored = FALSE]]]

\* mutant: the round counter is not reset
startGame_Mutant ==
    /\ gScores' = << 0, 0 >>
    /\ gState' = "playing"
    /\ SetTurn(startTurn([Turn EXCEPT !.index = 0,
                                        !.thrown = << 0, 0 >>, !.discs = PlayersReset]))
    /\ gWinner' = << >>
    /\ UNCHANGED << gIsPaused, gWaiting >>

startGame ==
    /\ gScores' = << 0, 0 >>
    /\ gState' = "playing"
    /\ SetTurn(startTurn([Turn EXCEPT !.round = 1, !.index = 0,
                                        !.thrown = << 0, 0 >>, !.discs = PlayersReset]))
    /\ gWinner' = << >>
    /\ UNCHANGED << gIsPaused, gWaiting >>


\* pauseGame and resumeGame on the pair (state.value, isPaused)
pauseGameOf(st) ==
    IF st.value = "playing" THEN [value |-> "paused", isPaused |-> TRUE] ELSE st

resumeGameOf(st) ==
    IF st.value = "paused" THEN [value |-> "playing", isPaused |-> FALSE] ELSE st

togglePauseOf(st) ==
    IF st.value = "playing" THEN pauseGameOf(st)
    ELSE IF st.value = "paused" THEN resumeGameOf(st)
    ELSE st

PauseState == [value |-> gState, isPaused |-> gIsPaused]

SetPauseState(st) ==
    /\ gState' = st.value /\ gIsPaused' = st.isPaused
    /\ UNCHANGED << gGameState, gScores, gRound, gIndex, gThrown, gDiscs, gWaiting, gWinner >>

pauseGame == SetPauseState(pauseGameOf(PauseState))

resumeGame == SetPauseState(resumeGameOf(PauseState))

togglePause == SetPauseState(togglePauseOf(PauseState))

\* the confirmation dialog is modal: the user confirms or cancels before
\* anything else happens; cancelling resumes a paused match
onCancel == SetPauseState(resumeGameOf(PauseState))

\* returnToMainMenu and restartGame: in a match the user is asked first
returnToMainMenu ==
    IF gState \in {"playing", "paused"}
    THEN showMainMenu \/ onCancel
    ELSE showMainMenu

restartGame ==
    IF gState \in {"playing", "paused"}
    THEN startGame \/ onCancel
    ELSE startGame

GNext ==
    \/ startGame \/ showMainMenu \/ pauseGame \/ resumeGame \/ togglePause
    \/ returnToMainMenu \/ restartGame
    \/ shoot \/ checkScoring \/ checkGameOver

(***************************************************************************)
(* Player (player.js)                                                      *)
(***************************************************************************)
\* Disc.reset: setPosition(0, 0, 0), hasBeenScored = false
DiscReset(d) == [d EXCEPT !.z = 0, !.hasBeenScored = FALSE]

\* mutant: the limit is checked one disc late and the disc is not checked
CanThrow_Mutant(n) == ~(n > maxDiscs)

\* the two early returns of throwDisc
CanThrow(n) == ~(n >= maxDiscs) /\ (n + 1) \in PDiscIds

\* throwDisc(power, angle): the disc is put at z = -14 and pushed
throwDiscBody ==
    IF CanThrow(discsThrown)
    THEN /\ pDiscs' = [pDiscs EXCEPT ![discsThrown + 1] =
                          [@ EXCEPT !.z = -140, !.force = TRUE]]
         /\ discsThrown' = discsThrown + 1
         /\ pRet' = "true"
    ELSE /\ pRet' = "false"
         /\ UNCHANGED << pDiscs, discsThrown >>

throwDisc ==
    /\ throwDiscBody
    /\ UNCHANGED << isAI, pScore, pTimers, pRound, pStale >>

makeAIMove ==
    /\ pTimers < MaxAITimers
    /\ IF ~isAI \/ discsThrown >= maxDiscs
       THEN UNCHANGED pTimers
       ELSE pTimers' = pTimers + 1
    /\ UNCHANGED << isAI, pScore, discsThrown, pDiscs, pRet, pRound, pStale >>

\* the 1000 ms callback of makeAIMove; the timers all have the same delay,
\* so the oldest pending one fires first
aiThrow ==
    /\ pTimers > 0
    /\ pTimers' = pTimers - 1
    /\ pStale' = IF pStale > 0 THEN pStale - 1 ELSE 0
    /\ throwDiscBody
    /\ UNCHANGED << isAI, pScore, pRound >>

reset ==
    /\ pScore' = 0
    /\ discsThrown' = 0
    /\ pDiscs' = [i \in PDiscIds |-> DiscReset(pDiscs[i])]
    \* no clearTimeout: what is pending stays pending
    /\ pStale' = pTimers
    /\ UNCHANGED << isAI, pTimers, pRet, pRound >>

PUnscored == {i \in PDiscIds : ~pDiscs[i].hasBeenScored}

PRoundScore == SumOver(PUnscored, [i \in PDiscIds |-> BoardCalculateScore(pDiscs[i].z)])

PlayerCalculateScore ==
    /\ pRound' = << PRoundScore >>
    /\ pScore' = pScore + PRoundScore
    /\ pDiscs' = [i \in PDiscIds |-> [pDiscs[i] EXCEPT !.hasBeenScored = TRUE]]
    /\ UNCHANGED << isAI, discsThrown, pTimers, pRet, pStale >>

\* one physics step: the pushed discs travel, the applied forces are cleared
worldStep ==
    /\ \E i \in PDiscIds : pDiscs[i].force
    /\ \E zf \in [{i \in PDiscIds : pDiscs[i].force} -> PlayerPositions] :
          pDiscs' = [i \in PDiscIds |->
                        IF pDiscs[i].force
                        THEN [pDiscs[i] EXCEPT !.z = zf[i], !.force = FALSE]
                        ELSE pDiscs[i]]
    /\ UNCHANGED << isAI, pScore, discsThrown, pTimers, pRet, pRound, pStale >>

PlNext == throwDisc \/ makeAIMove \/ aiThrow \/ reset \/ PlayerCalculateScore \/ worldStep

(***************************************************************************)
(* The drafts are separate programs: a run is a run of one of them         *)
(***************************************************************************)
Init ==
    /\ draft \in {"single", "zones", "player", "board", "state", "game"}
    /\ P0Init
    /\ SInit
    /\ GInit
    /\ IF draft = "board"
       THEN bX \in BoardXRange /\ bZ \in BoardZRange /\ bBoard = << >> /\ bUtils = << >>
       ELSE BInit
    /\ IF draft = "zones" THEN zPos \in ZRange /\ zPoints = << >> ELSE ZInit
    /\ IF draft = "player"
       THEN /\ isAI \in BOOLEAN
            /\ pScore = 0 /\ discsThrown = 0 /\ pTimers = 0
            /\ pRet = "none" /\ pRound = << >> /\ pStale = 0
            /\ pDiscs = [i \in PDiscIds |->
                            [z |-> 0, hasBeenScored |-> FALSE, force |-> FALSE]]
       ELSE PlInit

Next ==
    \/ draft = "single" /\ onKeyDown /\ UNCHANGED << draft, zvars, plvars, jsvars >>
    \/ draft = "single" /\ onKeyUp /\ UNCHANGED << draft, zvars, plvars, jsvars >>
    \/ draft = "single" /\ animate /\ UNCHANGED << draft, zvars, plvars, jsvars >>
    \/ draft = "single" /\ calculateScores /\ UNCHANGED << draft, zvars, plvars, jsvars >>
    \/ draft = "single" /\ roundReset /\ UNCHANGED << draft, zvars, plvars, jsvars >>
    \/ draft = "zones" /\ resolvePosition /\ UNCHANGED << draft, p0vars, plvars, jsvars >>
    \/ draft = "player" /\ throwDisc /\ UNCHANGED << draft, p0vars, zvars, jsvars >>
    \/ draft = "player" /\ makeAIMove /\ UNCHANGED << draft, p0vars, zvars, jsvars >>
    \/ draft = "player" /\ aiThrow /\ UNCHANGED << draft, p0vars, zvars, jsvars >>
    \/ draft = "player" /\ reset /\ UNCHANGED << draft, p0vars, zvars, jsvars >>
    \/ draft = "player" /\ PlayerCalculateScore /\ UNCHANGED << draft, p0vars, zvars, jsvars >>
    \/ draft = "player" /\ worldStep /\ UNCHANGED << draft, p0vars, zvars, jsvars >>
    \/ draft = "board" /\ scorePosition /\ UNCHANGED << draft, p0vars, zvars, plvars, smvars, gvars >>
    \/ draft = "state" /\ setState /\ UNCHANGED << draft, p0vars, zvars, plvars, brdvars, gvars >>
    \/ draft = "state" /\ onStateChange /\ UNCHANGED << draft, p0vars, zvars, plvars, brdvars, gvars >>
    \/ draft = "state" /\ unsubscribe /\ UNCHANGED << draft, p0vars, zvars, plvars, brdvars, gvars >>
    \/ draft = "game" /\ startGame /\ UNCHANGED << draft, p0vars, zvars, plvars, brdvars, smvars >>
    \/ draft = "game" /\ showMainMenu /\ UNCHANGED << draft, p0vars, zvars, plvars, brdvars, smvars >>
    \/ draft = "game" /\ pauseGame /\ UNCHANGED << draft, p0vars, zvars, plvars, brdvars, smvars >>
    \/ draft = "game" /\ resumeGame /\ UNCHANGED << draft, p0vars, zvars, plvars, brdvars, smvars >>
    \/ draft = "game" /\ togglePause /\ UNCHANGED << draft, p0vars, zvars, plvars, brdvars, smvars >>
    \/ draft = "game" /\ returnToMainMenu /\ UNCHANGED << draft, p0vars, zvars, plvars, brdvars, smvars >>
    \/ draft = "game" /\ restartGame /\ UNCHANGED << draft, p0vars, zvars, plvars, brdvars, smvars >>
    \/ draft = "game" /\ shoot /\ UNCHANGED << draft, p0vars, zvars, plvars, brdvars, smvars >>
    \/ draft = "game" /\ checkScoring /\ UNCHANGED << draft, p0vars, zvars, plvars, brdvars, smvars >>
    \/ draft = "game" /\ checkGameOver /\ UNCHANGED << draft, p0vars, zvars, plvars, brdvars, smvars >>

Spec == Init /\ [][Next]_vars

\* requestAnimationFrame keeps the tick running and the browser fires every
\* timer that was set; nothing makes the players press a key
FairSpec ==
    /\ Spec
    /\ WF_vars(draft = "single" /\ animate /\ UNCHANGED << draft, zvars, plvars, jsvars >>)
    /\ WF_vars(draft = "single" /\ calculateScores /\ UNCHANGED << draft, zvars, plvars, jsvars >>)
    /\ WF_vars(draft = "single" /\ roundReset /\ UNCHANGED << draft, zvars, plvars, jsvars >>)

TypeOK ==
    /\ draft \in {"single", "zones", "player", "board", "state", "game"}
    /\ gameState \in {"aiming", "charging", "shooting", "gameOver"}
    /\ currentPlayer \in {1, 2}
    /\ discsShot \in 0..MaxShots
    /\ discsThrown \in 0..(maxDiscs + 1)

(***************************************************************************)
(* Properties                                                              *)
(***************************************************************************)
Single == draft = "single"

\* a calculateScores callback ran in this step
CalcRan == Single /\ calcRuns' = calcRuns + 1

\* ... and reached the lines that add the round scores to the totals
CalcAdded == CalcRan /\ Blocking = {}

\* a round-reset callback ran in this step
ResetRan == Single /\ timers # << >> /\ Head(timers) = "reset" /\ timers' = Tail(timers)

\* shootDisc gave a disc its velocity in this step
ShotTaken == Single /\ Len(shotLog') = Len(shotLog) + 1

DiscsLeft(p) ==
    IF ShotsBy(p) >= DISCS_PER_PLAYER THEN 0 ELSE DISCS_PER_PLAYER - ShotsBy(p)

\* C1: every position inside a zone's half-open range [min,max) resolves to
\* that zone's points, and every position outside all zones (z < 0 or
\* z >= 20) resolves to the default 0.
C1_ZonePoints ==
    (draft = "zones" /\ zPoints # << >>) =>
        /\ \A k \in 1..Len(SCORING_ZONES) :
              (SCORING_ZONES[k].min <= zPos /\ zPos < SCORING_ZONES[k].max)
                 => zPoints[1] = SCORING_ZONES[k].points
        /\ (zPos < 0 \/ zPos >= 200) => zPoints[1] = 0

\* C2: each player's running total equals the sum of the point values of
\* that player's discs scored in the rounds so far.
C2_TotalsAreScoredPoints ==
    Single => (player1Score = ledger[1] /\ player2Score = ledger[2])

C4_TurnAndRoundEnd ==
    /\ [](Single =>
            ~(DiscsLeft(currentPlayer) = 0 /\ DiscsLeft(OtherPlayer(currentPlayer)) > 0))
    /\ [][ CalcRan => (DiscsLeft(1) = 0 /\ DiscsLeft(2) = 0) ]_vars

\* C5: no player takes more than 4 shots in a round, and discsShot never
\* exceeds 8 before it is reset.
C5_ShotsWithinDiscs ==
    Single =>
        /\ ShotsBy(1) <= DISCS_PER_PLAYER
        /\ ShotsBy(2) <= DISCS_PER_PLAYER
        /\ discsShot <= ROUND_SHOTS

\* C6: 0 <= discsThrown <= maxDiscs always, and a throwDisc call made at
\* discsThrown = maxDiscs returns false and changes neither discsThrown nor
\* score nor any disc.
C6_ThrowWithinDiscs ==
    /\ [](draft = "player" => (0 <= discsThrown /\ discsThrown <= maxDiscs))
    /\ [][ (draft = "player" /\ discsThrown = maxDiscs /\ (throwDisc \/ aiThrow))
              => (pRet' = "false" /\ UNCHANGED << discsThrown, pScore, pDiscs >>) ]_vars

\* C6 witness: all discs are thrown and a further throw was refused.
C6_Witness ==
    draft = "player" /\ discsThrown = maxDiscs /\ pRet = "false"

\* C7: every shot goes to a disc that has not been shot since the last disc
\* reset.
C7_NeverReshoots ==
    [][ ShotTaken =>
           \A k \in 1..Len(shotLog) : shotLog[k].disc # shotLog'[Len(shotLog')].disc ]_vars

\* C8: when the totals after adding the round scores differ and one of them
\* is >= 75, the game is over, the declared winner has the strictly higher
\* total, which is >= 75, and no round reset is scheduled by that run.
C8_DecisiveWin ==
    [][ (CalcAdded /\ (player1Score' >= WIN_SCORE \/ player2Score' >= WIN_SCORE)
                   /\ player1Score' # player2Score')
          => /\ gameState' = "gameOver"
             /\ winner' \in {1, 2}
             /\ winner' = 1 => (player1Score' > player2Score' /\ player1Score' >= WIN_SCORE)
             /\ winner' = 2 => (player2Score' > player1Score' /\ player2Score' >= WIN_SCORE)
             /\ timers' = Tail(timers) ]_vars

\* C8 witness: 80 against 60, player 1 declared winner.
C8_Witness ==
    /\ Single /\ gameState = "gameOver" /\ winner = 1
    /\ player1Score = 80 /\ player2Score = 60

C10_RoundCounter ==
    /\ [](Single => currentRound >= 1)
    /\ [][ /\ currentRound' >= currentRound
           /\ (CalcAdded /\ gameState' # "gameOver") => currentRound' = currentRound + 1
         ]_vars

\* C11: once the active disc has been removed from the simulation while
\* gameState is 'shooting', gameState eventually leaves 'shooting'.
C11_ShotResolved ==
    (Single /\ gameState = "shooting" /\ activeDisc > 0 /\ ~discs[activeDisc].body)
        ~> (gameState # "shooting")

\* C12: a calculateScores run that finds a removed disc completes: every
\* disc is marked scored, each removed disc it scores gets 0 points, and the
\* points of the other discs it scores are added to both totals.
C12_RemovedDiscScoresZero ==
    [][ (CalcRan /\ Blocking # {}) =>
            /\ \A i \in DiscIds : discs'[i].scored
            /\ \A i \in Blocking : discs'[i].points = 0
            /\ \A p \in {1, 2} :
                  (IF p = 1 THEN player1Score' - player1Score
                            ELSE player2Score' - player2Score)
                    = SumOver({i \in Unscored \ Blocking : discs[i].player = p},
                              [i \in DiscIds |-> discs'[i].points])
      ]_vars

\* C13: a space key-down received in a state other than 'aiming' and a space
\* key-up received in a state other than 'charging' leave gameState, power,
\* currentPlayer, discsShot, both totals, currentRound and every disc
\* unchanged.
C13_InvalidInputsIgnored ==
    [][ Single =>
          /\ (onKeyDown /\ gameState # "aiming") => ignoredInput' = "keydown"
          /\ (onKeyUp /\ gameState # "charging") => ignoredInput' = "keyup"
          /\ (\/ onKeyDown /\ gameState # "aiming"
              \/ onKeyUp /\ gameState # "charging"
              \/ ignoredInput' # "none")
                => UNCHANGED << gameState, power, currentPlayer, discsShot,
                                player1Score, player2Score, currentRound, discs >>
      ]_vars

\* C13 witness: a key-down has just been received while a disc was travelling.
C13_Witness ==
    Single /\ ignoredInput = "keydown" /\ gameState = "shooting" /\ discsShot > 0

\* C14: a makeAIMove timer that was set before Player.reset() does not throw
\* a disc or change the score after the reset.
C14_StaleCallbacksCancelled ==
    [][ (draft = "player" /\ pStale > 0 /\ aiThrow)
            => UNCHANGED << discsThrown, pDiscs, pScore >> ]_vars

\* C15: the speed shootDisc gives to the disc never exceeds
\* SHOT_POWER * (1 + perturbation bound), and with power = 0 the disc is
\* given zero speed.
C15_ShotSpeed ==
    [][ ShotTaken =>
          LET v == shotLog'[Len(shotLog')].velocity
              limit == SHOT_POWER * (100 + RANDOM_SCALE)
          IN /\ ~(v.x # NaN /\ v.z # NaN
                    /\ v.x[1] * v.x[1] + v.z[1] * v.z[1] > limit * limit)
             /\ power = 0 => (v.x = Num(0) /\ v.z = Num(0))
      ]_vars

\* C16: whenever gameState is 'aiming', exactly one disc is the active disc.
C16_OneActiveDisc ==
    (Single /\ gameState = "aiming")
        => Cardinality({i \in DiscIds : activeDisc = i}) = 1

\* C17: after each shot that does not finish the round the turn passes to
\* the other player, and consecutive shots of a round are by different
\* players.
C17_TurnsAlternate ==
    [][ ShotTaken =>
          /\ discsShot' < ROUND_SHOTS => currentPlayer' # currentPlayer
          /\ shotLog # << >>
                => shotLog'[Len(shotLog')].player # shotLog[Len(shotLog)].player
      ]_vars

\* C18: from the 8th shot of a round until the deferred calculateScores and
\* the deferred round reset have run, gameState is neither 'aiming' nor
\* 'charging'.
C18_NoInputBeforeScoring ==
    (Single /\ discsShot >= ROUND_SHOTS /\ timers # << >>)
        => gameState \notin {"aiming", "charging"}

C20_RoundReset ==
    [][ /\ ResetRan =>
              /\ gameState' = "aiming" /\ currentPlayer' = 1 /\ discsShot' = 0
              /\ \A i \in DiscIds : ~discs'[i].scored /\ discs'[i].points = 0
              /\ player1Score' = player1Score /\ player2Score' = player2Score
        /\ (CalcRan /\ gameState' = "gameOver") => timers' = Tail(timers)
      ]_vars

\* C30: only discs that were thrown since the last reset contribute to a
\* score: Player.calculateScore adds to the round score and to the player's
\* total the points of the unscored discs among the first discsThrown ones
\* and nothing for the others.
C30_OnlyThrownDiscsScore ==
    [][ (draft = "player" /\ PlayerCalculateScore) =>
            LET thrown == {i \in PUnscored : i <= discsThrown}
                pts == SumOver(thrown, [i \in PDiscIds |-> BoardCalculateScore(pDiscs[i].z)])
            IN  pRound' = << pts >> /\ pScore' = pScore + pts
      ]_vars

\* C25: Board.calculateScore returns the default 0 for every z outside the
\* bounds of isInBounds (z < -length/2 or z > length/2), and one of -10, 7,
\* 8, 10 only for z inside them.
C25_OutsideBoardScoresZero ==
    (draft = "board" /\ bBoard # << >>) =>
        /\ ~isInBounds(0, bZ) => bBoard[1] = 0
        /\ bBoard[1] \in {-10, 7, 8, 10} => isInBounds(0, bZ)

\* C26: calculateScore(x, z, L) of utils.js depends only on z and returns
\* the points Board.calculateScore(z) returns on a board of length L.
C26_ScoringFunctionsAgree ==
    (draft = "board" /\ bUtils # << >>) =>
        /\ \A x \in BoardXRange : UtilsCalculateScore(x, bZ, BoardLength) = bUtils[1]
        /\ bUtils[1] = bBoard[1]

\* C27: state.value is always one of loading, menu, playing, paused,
\* gameOver; a setState call with any other name leaves state.value as it
\* was and calls no callback; a callback removed through the function that
\* onStateChange returned is not called by a later setState.
C27_StateStaysValid ==
    /\ draft = "state" =>
          /\ sValue \in validStates
          /\ (sLast # << >> /\ sLast[1].arg \notin validStates)
                => (sValue = sLast[1].old /\ sNotified = {})
          /\ sNotified \cap sRemoved = {}
    /\ draft = "game" => gState \in validStates

\* C27 witness: setState was called with an unknown name while one callback
\* was registered and another one had been removed.
C27_Witness ==
    /\ draft = "state"
    /\ sLast # << >> /\ sLast[1].arg = "settings"
    /\ sCallbacks = {"cbA"} /\ sRemoved = {"cbB"}
    /\ sValue = "paused"

\* a score at or above winningScore and not equal to the other one
Decisive(s) == (s[1] >= winningScore \/ s[2] >= winningScore) /\ s[1] # s[2]

\* C21: whenever checkScoring has scored the discs and some player's score
\* is >= winningScore with the two scores different, checkScoring ends the
\* game: the state becomes 'gameOver'.
C21_CheckScoringEndsGame ==
    [][ (draft = "game" /\ checkScoring /\ gGameState # "gameOver" /\ Decisive(gScores'))
            => gState' = "gameOver"
      ]_vars

\* the winner by score: 1, 2, or 0 for equal scores
HigherScore(s) == IF s[1] > s[2] THEN 1 ELSE IF s[2] > s[1] THEN 2 ELSE 0

\* C22: whenever checkGameOver ends the game, the winner handed to endGame
\* is the player with the strictly higher score, and 0 exactly when the
\* scores are equal.
C22_WinnerHasHigherScore ==
    [][ (draft = "game" /\ checkGameOver /\ GameOverWinner # << >>)
            => gWinner' = << HigherScore(gScores) >>
      ]_vars

C24_PauseProtocol ==
    /\ [](draft = "game" /\ gState \in {"playing", "paused"}
            => togglePauseOf(togglePauseOf(PauseState)) = PauseState)
    /\ [][ draft = "game" =>
            /\ pauseGame =>
                  /\ gState = "playing" => gState' = "paused"
                  /\ gState # "playing" => UNCHANGED << gState, gIsPaused >>
            /\ resumeGame =>
                  /\ gState = "paused" => gState' = "playing"
                  /\ gState # "paused" => UNCHANGED << gState, gIsPaused >>
            /\ (pauseGame \/ resumeGame \/ togglePause)
                  => UNCHANGED << gScores, gRound, gIndex >>
         ]_vars

\* C28: whenever the state is 'playing', isPaused is false, and isPaused is
\* true only while the state is 'paused'.
C28_PauseFlagConsistent ==
    draft = "game" =>
        /\ gState = "playing" => ~gIsPaused
        /\ gIsPaused => gState = "paused"

\* C29: once endGame has set the state to 'gameOver', a checkScoring call
\* (and the endTurn it makes) changes neither currentPlayerIndex nor the
\* scores nor any disc, until startGame is called.
C29_GameOverIsTerminal ==
    [][ (draft = "game" /\ gState = "gameOver" /\ checkScoring)
            => UNCHANGED << gIndex, gScores, gDiscs >>
      ]_vars

====
